---------------------------- MODULE Spec2Model ----------------------------
(***************************************************************************)
(* A model of the disk-backed memoization decorator `cachable` of          *)
(* src/decorators.py, with the scoped `timer` and the `optional` context   *)
(* manager it runs the disk read and the computation under.                *)
(*                                                                         *)
(* Text is a sequence of one-character strings, so that the filename       *)
(* sanitisation, the joins and the string conversions are computed as the  *)
(* code computes them.                                                     *)
(*                                                                         *)
(* Specifications: Spec (a wrapper, its calls, and what happens to its     *)
(* cache from outside), SpecKey and SpecPair (the path derivation of two   *)
(* calls), SpecDir (the directory policy), SpecTimer (nested timer         *)
(* scopes) and SpecRace (processes that share one key).                    *)
(***************************************************************************)
EXTENDS Integers, Sequences, FiniteSets, TLC

VARIABLES
    dirExists,  \* whether cache_dir is a directory
    cfg,        \* the closure of the current wrapper of func, or NoWrapper
    files,      \* the cache directory: path -> content of the file at that path
    cache,      \* the wrapper's WeakValueDictionary: path -> live object
    level,      \* timer.level
    opened,     \* timer.opened
    ncalls,     \* wrapper calls made so far
    last,       \* what the last operation did
    kq,         \* key derivation on its own: a closure, two calls and their paths
    dp,         \* directory policy on its own: the directory, the closure, a file
    tm,         \* timer scopes on their own: the scopes that are open
    rc          \* one key shared by processes: the file and each process

vars == <<dirExists, cfg, files, cache, level, opened, ncalls, last, kq, dp, tm, rc>>

wrapperVars == <<dirExists, cfg, files, cache, level, opened, ncalls, last>>

-----------------------------------------------------------------------------
(* Bounds of the model *)

\* wrapper calls in one behaviour
MaxCalls == 2

\* positional arguments of a call whose path is derived
MaxArgs == 1

\* keyword arguments of a call whose path is derived
MaxKw == 2

-----------------------------------------------------------------------------
(* Text *)

Letters ==
    {"a","b","c","d","e","f","g","h","i","j","k","l","m",
     "n","o","p","q","r","s","t","u","v","w","x","y","z",
     "A","B","C","D","E","F","G","H","I","J","K","L","M",
     "N","O","P","Q","R","S","T","U","V","W","X","Y","Z"}

DigitChars == <<"0","1","2","3","4","5","6","7","8","9">>

HexChars == DigitChars \o <<"a","b","c","d","e","f">>

Range(s) == {s[i] : i \in 1..Len(s)}

\* '_'.join(parts)
RECURSIVE Join(_, _)
Join(parts, sep) ==
    IF parts = <<>> THEN <<>>
    ELSE IF Len(parts) = 1 THEN parts[1]
    ELSE parts[1] \o sep \o Join(Tail(parts), sep)

\* the decimal digits of a natural number
RECURSIVE NatToStr(_)
NatToStr(n) ==
    IF n < 10 THEN <<DigitChars[n + 1]>>
    ELSE NatToStr(n \div 10) \o <<DigitChars[(n % 10) + 1]>>

(* Python values that are passed as arguments, keyword values and version  *)
(* tags: integers, strings and booleans.                                   *)
PyInt(n) == [t |-> "int", n |-> n]
PyStr(s) == [t |-> "str", s |-> s]
PyBool(b) == [t |-> "bool", b |-> b]

\* str(x)
str(x) ==
    IF x.t = "int"
    THEN (IF x.n < 0 THEN <<"-">> \o NatToStr(0 - x.n) ELSE NatToStr(x.n))
    ELSE IF x.t = "bool"
    THEN (IF x.b THEN <<"T","r","u","e">> ELSE <<"F","a","l","s","e">>)
    ELSE x.s

-----------------------------------------------------------------------------
(* Key derivation *)

valid_chars == Letters \cup Range(DigitChars) \cup {"-", "_", ".", "(", ")", " "}

IsValidChar(c) == c \in valid_chars

\* .replace(' ', '_')
ReplaceSpaces(s) == [i \in 1..Len(s) |-> IF s[i] = " " THEN "_" ELSE s[i]]

\* a sanitisation that forgets to replace the spaces
FormatFilenameKeepSpaces(s) == SelectSeq(s, IsValidChar)

_format_filename(s) == ReplaceSpaces(SelectSeq(s, IsValidChar))

\* the length above which name() hashes the rendered text
NameLimit == 40

\* the length of a SHA-1 hexdigest
DigestLen == 40

(* hashlib.sha1(y).hexdigest(): a fixed-length text of hexadecimal digits  *)
(* that is a function of y alone, y being hashed as a byte string.  The    *)
(* digest is a stand-in: a positional checksum of y, written as DigestLen  *)
(* hexadecimal digits.                                                     *)
CharCode(c) ==
    IF c \in Range(HexChars)
    THEN CHOOSE i \in 1..Len(HexChars) : HexChars[i] = c
    ELSE 17

RECURSIVE Checksum(_, _)
Checksum(y, acc) ==
    IF y = <<>> THEN acc
    ELSE Checksum(Tail(y), (acc * 31 + CharCode(Head(y))) % 65536)

Sha1Hex(y) ==
    LET h == Checksum(y, 7)
    IN [i \in 1..DigestLen |->
            IF i = 1 THEN HexChars[((h \div 4096) % 16) + 1]
            ELSE IF i = 2 THEN HexChars[((h \div 256) % 16) + 1]
            ELSE IF i = 3 THEN HexChars[((h \div 16) % 16) + 1]
            ELSE IF i = 4 THEN HexChars[(h % 16) + 1]
            ELSE "0"]

name(x) ==
    LET y == str(x)
    IN IF Len(y) > NameLimit THEN Sha1Hex(y) ELSE y

cache_dir == <<"/","t","m","p","/","c">>

\* func.__module__
FuncModule == <<"m">>

NoVersion == [t |-> "none"]

\* cache_fn of deco: the part of the path that is fixed at decoration
CacheFn(funcname, version) ==
    cache_dir \o <<"/">> \o FuncModule \o <<".">> \o funcname \o <<"_">>
    \o (IF version # NoVersion
        THEN _format_filename(<<"v","e","r">> \o str(version) \o <<"_">>)
        ELSE <<>>)

(* Keyword arguments are the pairs of kwds in the order iteritems(kwds)    *)
(* yields them: a sequence of [k, v] with distinct keys.                   *)
KeptPairs(kwds, ignore) ==
    LET Kept(p) == p.k \notin ignore
    IN SelectSeq(kwds, Kept)

RenderPair(p) == name(PyStr(p.k)) \o <<".">> \o name(p.v)

\* a rendering of the keywords that does not filter the ignored ones
RenderKwdsAll(kwds, ignore) ==
    Join([i \in 1..Len(kwds) |-> RenderPair(kwds[i])], <<"_">>)

RenderKwds(kwds, ignore) ==
    LET kept == KeptPairs(kwds, ignore)
    IN Join([i \in 1..Len(kept) |-> RenderPair(kept[i])], <<"_">>)

RenderArgs(args) == Join([i \in 1..Len(args) |-> name(args[i])], <<"_">>)

\* fn of wrapper: the path of the cache file of one call
FileName(funcname, version, ignore, args, kwds) ==
    CacheFn(funcname, version)
    \o _format_filename(RenderArgs(args) \o <<"_">> \o RenderKwds(kwds, ignore)
                        \o <<".","p","i","c","k","l","e">>)

-----------------------------------------------------------------------------
(* Key derivation on its own: one closure, two calls with the same         *)
(* positional arguments, and the path each call derives.                   *)

NoPath == <<>>

Versions == {NoVersion, PyStr(<<"1">>), PyStr(<<"1","!">>)}

IgnoreSets == {{}, {<<"i","g">>}}

FuncNames == {<<"d","o","u","b","l","e">>, <<"f">>}

LongText == [i \in 1..(NameLimit + 1) |-> "x"]

ArgValues == {PyInt(21), PyStr(<<"a"," ","b">>), PyStr(<<"a","_","b">>), PyStr(LongText)}

ArgTuples == UNION {[1..n -> ArgValues] : n \in 0..MaxArgs}

KwPairs ==
    {[k |-> <<"a">>, v |-> PyInt(1)], [k |-> <<"b">>, v |-> PyInt(2)],
     [k |-> <<"i","g">>, v |-> PyInt(1)], [k |-> <<"i","g">>, v |-> PyInt(2)]}

\* the keyword dictionaries: pairs in iteration order, no key twice
KwSeqs ==
    {s \in UNION {[1..n -> KwPairs] : n \in 0..MaxKw} :
        \A i, j \in 1..Len(s) : i # j => s[i].k # s[j].k}

NoWrapper == [decorated |-> FALSE]

EmptyMap == [p \in {} |-> FALSE]

NoOp == [op |-> "none"]

NoDir == [stage |-> "off"]

NoScopes == <<>>

NoRace == [stage |-> "off"]

NoKey ==
    [stage |-> "off", funcname |-> <<>>, version |-> NoVersion, ignore |-> {},
     args |-> <<>>, kwdsA |-> <<>>, kwdsB |-> <<>>, fnA |-> NoPath, fnB |-> NoPath]

InitWrapperVars ==
    /\ dirExists \in BOOLEAN
    /\ cfg = NoWrapper
    /\ files = EmptyMap
    /\ cache = EmptyMap
    /\ level = 0
    /\ opened = FALSE
    /\ ncalls = 0
    /\ last = NoOp

InitKey ==
    /\ InitWrapperVars
    /\ dirExists
    /\ dp = NoDir /\ tm = NoScopes /\ rc = NoRace
    /\ \E f \in FuncNames, ver \in Versions, ign \in IgnoreSets,
          a \in ArgTuples, k \in KwSeqs :
            kq = [stage |-> "decorated", funcname |-> f, version |-> ver, ignore |-> ign,
                  args |-> a, kwdsA |-> k, kwdsB |-> <<>>, fnA |-> NoPath, fnB |-> NoPath]

\* the first call derives its path (wrapper, lines 85-91)
DeriveFirst ==
    /\ kq.stage = "decorated"
    /\ kq' = [kq EXCEPT !.stage = "first",
                        !.fnA = FileName(kq.funcname, kq.version, kq.ignore, kq.args, kq.kwdsA)]
    /\ UNCHANGED <<wrapperVars, dp, tm, rc>>

\* a second call with the same positional arguments derives its path
DeriveSecond ==
    /\ kq.stage = "first"
    /\ \E k \in KwSeqs :
        kq' = [kq EXCEPT !.stage = "second", !.kwdsB = k,
                         !.fnB = FileName(kq.funcname, kq.version, kq.ignore, kq.args, k)]
    /\ UNCHANGED <<wrapperVars, dp, tm, rc>>

NextKey == DeriveFirst \/ DeriveSecond

SpecKey == InitKey /\ [][NextKey]_vars

-----------------------------------------------------------------------------
(* The instrumentation: the scoped timer and the optional context manager. *)
(* A timer state is [level, opened], the two class attributes; the text    *)
(* written to stdout is not part of the state.                             *)

\* timer.__enter__
TimerEnter(t) == [level |-> t.level + 1, opened |-> TRUE]

\* a timer whose __exit__ returns a true value when an exception passes
TimerExitSwallows(t, failed) ==
    [t |-> [level |-> t.level - 1, opened |-> FALSE], suppress |-> failed]

\* a timer that takes the level back only when no exception passes
TimerExitOnSuccess(t, failed) ==
    [t |-> [level |-> IF failed THEN t.level ELSE t.level - 1, opened |-> FALSE],
     suppress |-> FALSE]

\* timer.__exit__: the class attributes it leaves, and its return value
TimerExit(t, failed) ==
    [t |-> [level |-> t.level - 1, opened |-> FALSE], suppress |-> FALSE]

\* optional.__enter__
OptionalEnter(variable, t) == IF variable THEN TimerEnter(t) ELSE t

\* optional.__exit__
OptionalExit(variable, t, failed) ==
    IF variable THEN TimerExit(t, failed) ELSE [t |-> t, suppress |-> FALSE]

-----------------------------------------------------------------------------
(* The wrapped function and the calls made to its wrappers *)

PyNone == [t |-> "none"]
\* an object that can be weakly referenced (an array, a data frame)
PyObj(x) == [t |-> "obj", of |-> x]

\* func.__name__ of the function the wrappers wrap
FuncName == <<"f">>

CallArgs ==
    {<<PyInt(21)>>, <<PyStr(<<"a"," ","b">>)>>, <<PyInt(0)>>, <<PyInt(0 - 1)>>}

RecomputeKey == <<"r","e","c","o","m","p","u","t","e">>

CallKwds == {<<>>, <<[k |-> RecomputeKey, v |-> PyBool(TRUE)]>>}

(* func(args, kwds): a deterministic function that doubles 21, returns  *)
(* None for 0, raises for -1 and returns an object made from its argument  *)
(* otherwise.                                                              *)
Func(args, kwds) ==
    LET x == args[1]
    IN IF x = PyInt(21) THEN [raises |-> FALSE, val |-> PyInt(42)]
       ELSE IF x = PyInt(0) THEN [raises |-> FALSE, val |-> PyNone]
       ELSE IF x = PyInt(0 - 1) THEN [raises |-> TRUE, val |-> PyNone]
       ELSE [raises |-> FALSE, val |-> PyObj(x.s)]

\* whether weakref.ref(r) can be created: not for int, str, tuple, list, dict
Weakrefable(r) == r.t = "obj"

\* kwds.get('recompute', False): the flag is read and the keyword stays
PopRecomputeKeeps(kwds) ==
    LET IsRc(p) == p.k = RecomputeKey
        hit == SelectSeq(kwds, IsRc)
    IN [flag |-> IF hit = <<>> THEN FALSE ELSE hit[1].v.b,
        rest |-> kwds]

\* kwds.pop('recompute', False): the flag and the keywords that remain
PopRecompute(kwds) ==
    LET IsRc(p) == p.k = RecomputeKey
        NotRc(p) == p.k # RecomputeKey
        hit == SelectSeq(kwds, IsRc)
    IN [flag |-> IF hit = <<>> THEN FALSE ELSE hit[1].v.b,
        rest |-> SelectSeq(kwds, NotRc)]

-----------------------------------------------------------------------------
(* The cache directory *)

Absent == [k |-> "absent"]
\* a file cPickle.load cannot read: empty, truncated or not a pickle
Corrupt == [k |-> "corrupt"]
\* a complete pickle of val, written by a wrapper whose version tag is ver
Pickled(val, ver) == [k |-> "pickle", val |-> val, ver |-> ver]

Content(fs, fn) == IF fn \in DOMAIN fs THEN fs[fn] ELSE Absent

Remove(fs, fn) == [p \in DOMAIN fs \ {fn} |-> fs[p]]

(* An exception either carries arguments ("msg": IOError, OSError,         *)
(* UnpicklingError, PicklingError) or carries none ("nomsg": MemoryError,  *)
(* the EOFError of cPickle, an exception raised bare by an object's own    *)
(* pickling hooks).                                                        *)
Shapes == {"msg", "nomsg"}

\* whether evaluating e.args[0] for the warning raises IndexError
WarnRaises(shape) == shape = "nomsg"

(* What open(fn, 'wb'), os.fchown, os.fchmod and cPickle.dump can do:      *)
(* succeed, fail before the file is opened, fail after it was truncated.   *)
WriteOutcomes == {"ok", "openFail", "chownFail", "dumpFail"}

\* a write that replaces the file only when the whole pickle was written
FilesAfterWriteAtomic(fs, fn, val, ver, wr) ==
    IF wr = "ok" THEN (fn :> Pickled(val, ver)) @@ fs ELSE fs

\* the directory after lines 116-119
FilesAfterWrite(fs, fn, val, ver, wr) ==
    IF wr = "ok" THEN (fn :> Pickled(val, ver)) @@ fs
    ELSE IF wr = "openFail" THEN fs
    ELSE (fn :> Corrupt) @@ fs

(* What a call meets: the shape of the exception of a failed load, the     *)
(* outcome of the write and the shape of its exception, and whether func   *)
(* fails this time for a reason outside its arguments (it is interrupted,  *)
(* a resource it needs is gone).                                           *)
Envs ==
    {e \in [rexc : Shapes, wr : WriteOutcomes, wexc : Shapes, fails : BOOLEAN] :
        /\ e.wr \in {"ok", "openFail", "chownFail"} => e.wexc = "msg"
        /\ e.fails => e.wr = "ok"}

-----------------------------------------------------------------------------
(* cachable, deco and wrapper *)

\* a wrapper that never looks into its weak references
WeakHitNever(recompute, keepweakref, present) == FALSE

\* line 94
WeakHit(recompute, keepweakref, present) == ~recompute /\ keepweakref /\ present

\* a disk test that forgets the recompute flag
DiskTriedAlways(recompute, exists) == exists

\* line 96
DiskTried(recompute, exists) == ~recompute /\ exists

\* a write that is attempted whether or not func returned
WroteAlways(compute, raised) == compute

\* lines 114-115: the write is reached when func was called and returned
Wrote(compute, raised) == compute /\ ~raised

\* the test of line 108 inverted
IsMissInverted(ret) == ret # PyNone

\* line 108
IsMiss(ret) == ret = PyNone

(* Lines 93-106: the weak-reference test, the disk test and the read of    *)
(* the cache file under the optional timer.  t0 is the timer before.  A    *)
(* file that exists is taken to open; what can fail is cPickle.load.       *)
ReadPhase(c, wcache, fn, recompute, rexc, t0) ==
    LET weak == WeakHit(recompute, c.keepweakref, fn \in DOMAIN wcache)
        disk == ~weak /\ DiskTried(recompute, fn \in DOMAIN files)
        content == Content(files, fn)
        loadFails == disk /\ content.k # "pickle"
        x == IF disk
             THEN OptionalExit(c.verbose, OptionalEnter(c.verbose, t0), loadFails)
             ELSE [t |-> t0, suppress |-> FALSE]
        caught == loadFails /\ ~x.suppress
    IN [weak |-> weak, disk |-> disk, loadFails |-> loadFails,
        warned |-> caught /\ ~WarnRaises(rexc),
        raises |-> caught /\ WarnRaises(rexc),
        ret |-> IF weak THEN wcache[fn]
                ELSE IF disk /\ ~loadFails THEN content.val
                ELSE PyNone,
        t |-> x.t]

(* Lines 108-121: on a miss, the call of func and the write of its result  *)
(* under the optional timer.  rd is what the read phase left.  func raises *)
(* for arguments it rejects, or because it fails this time (env.fails).    *)
ComputePhase(c, fn, args, kwds, rd, env) ==
    LET compute == ~rd.weak /\ ~rd.raises /\ IsMiss(rd.ret)
        r == Func(args, kwds)
        raised == r.raises \/ env.fails
        funcRaised == compute /\ raised
        wrote == Wrote(compute, raised)
        wr == IF wrote THEN env.wr ELSE "none"
        warnRaises == wrote /\ wr # "ok" /\ WarnRaises(env.wexc)
        x == IF compute
             THEN OptionalExit(c.verbose, OptionalEnter(c.verbose, rd.t),
                               funcRaised \/ warnRaises)
             ELSE [t |-> rd.t, suppress |-> FALSE]
    IN [compute |-> compute, funcRaised |-> funcRaised, wr |-> wr,
        warned |-> wrote /\ wr # "ok" /\ ~warnRaises,
        escapes |-> (funcRaised \/ warnRaises) /\ ~x.suppress,
        byFunc |-> funcRaised,
        ret |-> IF wrote THEN r.val ELSE rd.ret,
        files |-> IF wrote THEN FilesAfterWrite(files, fn, r.val, c.version, wr)
                  ELSE files,
        t |-> x.t]

(* Lines 123-126: the store into the weak-reference dictionary and the     *)
(* return.                                                                 *)
StorePhase(c, wcache, fn, rd, cp) ==
    LET store == ~rd.weak /\ ~rd.raises /\ ~cp.escapes /\ c.keepweakref
                 /\ cp.ret # PyNone
        storeRaises == store /\ ~Weakrefable(cp.ret)
    IN [cache |-> IF store /\ ~storeRaises THEN (fn :> cp.ret) @@ wcache ELSE wcache,
        exc |-> IF rd.raises THEN "read"
                ELSE IF cp.escapes /\ cp.byFunc THEN "func"
                ELSE IF cp.escapes THEN "write"
                ELSE IF storeRaises THEN "store"
                ELSE "none"]

NoRepeat == [same |-> FALSE]

(* Whether this call repeats the operation before it (the same arguments   *)
(* and keywords through the same wrapper, nothing in between), and if so   *)
(* what that call did.                                                     *)
Repeats(args, kwds0) ==
    IF last.op = "call" /\ last.args = args /\ last.kwds = kwds0
    THEN [same |-> TRUE, invoked |-> last.invoked, outcome |-> last.outcome,
          ret |-> last.ret, write |-> last.write]
    ELSE NoRepeat

\* the record of one call, for the properties
CallRecord(args, kwds0, recompute, kwds, fn, rd, cp, sp) ==
    [op |-> "call", args |-> args, kwds |-> kwds0,
     recompute |-> recompute, fn |-> fn,
     weakHit |-> rd.weak, diskRead |-> rd.disk,
     diskHit |-> rd.disk /\ ~rd.loadFails /\ ~cp.compute,
     readWarned |-> rd.warned,
     invoked |-> cp.compute,
     passed |-> IF cp.compute THEN kwds ELSE <<>>,
     funcRaised |-> cp.funcRaised,
     write |-> cp.wr,
     writeWarned |-> cp.warned,
     outcome |-> IF sp.exc = "none" THEN "return" ELSE "raise",
     exc |-> sp.exc,
     ret |-> IF sp.exc = "none" THEN cp.ret ELSE PyNone,
     preFile |-> Content(files, fn),
     preWeak |-> fn \in DOMAIN cache,
     rep |-> Repeats(args, kwds0)]

(* One call of the wrapper: what it leaves in the directory, in its        *)
(* weak-reference dictionary and in the timer, and the record of the call. *)
Phases(args, kwds0, recompute, kwds, fn, rd, cp, sp) ==
    [files |-> cp.files, cache |-> sp.cache, timer |-> cp.t,
     rec |-> CallRecord(args, kwds0, recompute, kwds, fn, rd, cp, sp)]

AfterRead(args, kwds0, recompute, kwds, fn, rd, env) ==
    LET cp == ComputePhase(cfg, fn, args, kwds, rd, env)
    IN Phases(args, kwds0, recompute, kwds, fn, rd, cp,
              StorePhase(cfg, cache, fn, rd, cp))

WithKey(args, kwds0, recompute, kwds, fn, env) ==
    AfterRead(args, kwds0, recompute, kwds, fn,
              ReadPhase(cfg, cache, fn, recompute, env.rexc,
                        [level |-> level, opened |-> opened]),
              env)

(* cachable(version=..., keepweakref=..., ignore=..., verbose=...)(func):  *)
(* func is decorated, or decorated again with another version tag, which   *)
(* makes a new closure with a new weak-reference dictionary.  Decorations  *)
(* are followed while calls remain to be made.                             *)
Decorate ==
    /\ ncalls < MaxCalls
    /\ \E ver \in Versions, kw \in BOOLEAN, vb \in BOOLEAN :
        /\ cfg.decorated =>
            ver # cfg.version /\ kw = cfg.keepweakref /\ vb = cfg.verbose
        /\ cfg' = [decorated |-> TRUE, version |-> ver, keepweakref |-> kw,
                   verbose |-> vb, ignore |-> {<<"i","g">>},
                   inherit |-> dirExists]
    /\ dirExists' = TRUE
    /\ cache' = EmptyMap
    /\ last' = [op |-> "decorate"]
    /\ UNCHANGED <<files, level, opened, ncalls, kq, dp, tm, rc>>

(* The faults the call met: a fault of the read is chosen only for a call  *)
(* that reads a corrupt file, a fault of the write only for a call that    *)
(* writes, a failure of func only for a call that invokes it with          *)
(* arguments it does not raise for anyway.                                 *)
Relevant(env, rec) ==
    /\ env.rexc = "nomsg" => rec.diskRead /\ rec.preFile = Corrupt
    /\ env.wr # "ok" => rec.write # "none"
    /\ env.fails => rec.funcRaised /\ ~Func(rec.args, rec.passed).raises

(* wrapper(args, kwds): line 82 pops recompute, lines 85-91 derive the     *)
(* path, lines 93-126 do the rest.                                         *)
Call ==
    /\ cfg.decorated
    /\ ncalls < MaxCalls
    /\ \E args \in CallArgs, kwds0 \in CallKwds :
        \E popped \in {PopRecompute(kwds0)} :
        \E fn \in {FileName(FuncName, cfg.version, cfg.ignore, args, popped.rest)} :
        \E env \in Envs :
            /\ env.wr = "chownFail" => cfg.inherit
            /\ env.rexc = "nomsg" => Content(files, fn) = Corrupt
            /\ \E res \in {WithKey(args, kwds0, popped.flag, popped.rest, fn, env)} :
                  /\ Relevant(env, res.rec)
                  /\ files' = res.files
                  /\ cache' = res.cache
                  /\ level' = res.timer.level
                  /\ opened' = res.timer.opened
                  /\ last' = res.rec
    /\ ncalls' = ncalls + 1
    /\ UNCHANGED <<dirExists, cfg, kq, dp, tm, rc>>

(* What happens to the cache from outside is followed while calls remain   *)
(* to be made.                                                             *)

\* somebody removes a cache file
Delete ==
    /\ ncalls < MaxCalls
    /\ \E fn \in DOMAIN files :
        /\ files' = Remove(files, fn)
        /\ last' = [op |-> "delete", fn |-> fn]
    /\ UNCHANGED <<dirExists, cfg, cache, level, opened, ncalls, kq, dp, tm, rc>>

\* a cache file is truncated or overwritten with something that is no pickle
CorruptFile ==
    /\ ncalls < MaxCalls
    /\ \E fn \in DOMAIN files :
        /\ files[fn] # Corrupt
        /\ files' = [files EXCEPT ![fn] = Corrupt]
        /\ last' = [op |-> "corrupt", fn |-> fn]
    /\ UNCHANGED <<dirExists, cfg, cache, level, opened, ncalls, kq, dp, tm, rc>>

\* the last strong reference to a cached object goes away
Collect ==
    /\ ncalls < MaxCalls
    /\ \E fn \in DOMAIN cache :
        /\ cache' = Remove(cache, fn)
        /\ last' = [op |-> "collect", fn |-> fn]
    /\ UNCHANGED <<dirExists, cfg, files, level, opened, ncalls, kq, dp, tm, rc>>

Init == InitWrapperVars /\ kq = NoKey /\ dp = NoDir /\ tm = NoScopes /\ rc = NoRace

Next ==
    \/ Decorate
    \/ Call
    \/ Delete
    \/ CorruptFile
    \/ Collect

Spec == Init /\ [][Next]_vars

-----------------------------------------------------------------------------
(* Properties of the wrapper (specification Spec) *)

\* f(args) for the arguments of the last call
Expected == Func(last.args, PopRecompute(last.kwds).rest)

(* C1: cache transparency.  Every call that returns, returns f(args),      *)
(* whether a weak reference, the file or the computation served it, and    *)
(* whatever deletions, corruptions and collections came before.  (The      *)
(* argument tuples of CallArgs derive pairwise different paths.)           *)
CacheTransparency ==
    (last.op = "call" /\ last.outcome = "return")
        => ~Expected.raises /\ last.ret = Expected.val

\* a call that found a corrupt file and still returned f(args)
CacheTransparencyWitness ==
    /\ last.op = "call" /\ last.outcome = "return"
    /\ last.diskRead /\ last.preFile = Corrupt
    /\ last.ret = Expected.val /\ last.ret # PyNone

(* C2: idempotence.  A call without recompute that repeats the call before *)
(* it, which returned and persisted what it computed, does not invoke the  *)
(* function again and returns the same value.                              *)
Idempotence ==
    (/\ last.op = "call" /\ ~last.recompute
     /\ last.rep.same /\ last.rep.outcome = "return"
     /\ last.rep.write \in {"ok", "none"})
        => /\ ~last.invoked
           /\ last.outcome = "return"
           /\ last.ret = last.rep.ret

(* C3: a call with recompute=True consults neither the weak references    *)
(* nor the file, always invokes the function, and when the function        *)
(* returns and the write succeeds the file holds the new result.           *)
RecomputeBypasses ==
    (last.op = "call" /\ last.recompute)
        => /\ ~last.weakHit
           /\ ~last.diskRead
           /\ last.invoked
           /\ last.write = "ok" =>
                Content(files, last.fn) = Pickled(Expected.val, cfg.version)

\* a recompute over a live weak reference and a readable file
RecomputeBypassesWitness ==
    /\ last.op = "call" /\ last.recompute
    /\ last.preWeak /\ last.preFile.k = "pickle"
    /\ last.invoked /\ last.write = "ok" /\ last.outcome = "return"

(* C4: a cache file that cannot be deserialized makes the call warn,       *)
(* invoke the function and overwrite the file; the read path raises        *)
(* nothing to the caller.                                                  *)
CorruptFileRecovers ==
    (last.op = "call" /\ last.diskRead /\ last.preFile = Corrupt)
        => /\ last.readWarned
           /\ last.invoked
           /\ last.exc # "read"
           /\ last.write = "ok" =>
                Content(files, last.fn) = Pickled(Expected.val, cfg.version)

(* C5: a failure to serialize or write the result is reported as a warning *)
(* and the call still returns the computed result.                         *)
WriteFailureIsWarning ==
    (last.op = "call" /\ last.write \notin {"none", "ok"})
        => /\ last.writeWarned
           /\ last.exc # "write"
           /\ last.exc # "store" => (last.outcome = "return" /\ last.ret = Expected.val)

(* C6: a failure raised by the wrapped function ends the call by raising   *)
(* that failure: no warning about the cache, no value returned, no other   *)
(* error, with the timer on or off.                                        *)
FunctionFailurePropagates ==
    (last.op = "call" /\ last.funcRaised)
        => /\ last.outcome = "raise"
           /\ last.exc = "func"
           /\ last.write = "none"
           /\ ~last.writeWarned

\* the function raised under the timer
FunctionFailurePropagatesWitness ==
    /\ last.op = "call" /\ last.funcRaised /\ cfg.verbose
    /\ last.outcome = "raise" /\ last.exc = "func"

(* C9: version invalidation.  An entry served from the file was written    *)
(* by a wrapper with the same version tag as the wrapper serving it.       *)
VersionInvalidation ==
    (last.op = "call" /\ last.diskHit) => last.preFile.ver = cfg.version

-----------------------------------------------------------------------------
(* Properties of the key derivation (specification SpecKey) *)

HasPrefix(s, p) == Len(p) <= Len(s) /\ SubSeq(s, 1, Len(p)) = p

HasSuffix(s, p) == Len(p) <= Len(s) /\ SubSeq(s, Len(s) - Len(p) + 1, Len(s)) = p

\* the pairs of kwds whose key is not ignored, in order
NotIgnored(kwds) == SelectSeq(kwds, LAMBDA p : p.k \notin kq.ignore)

KeywordOrderIndependent ==
    (kq.stage = "second" /\ Range(kq.kwdsA) = Range(kq.kwdsB))
        => kq.fnA = kq.fnB

Double == <<"d","o","u","b","l","e">>

(* C10 as written: double(21) with no version and no keywords writes a     *)
(* file whose name ends in double._21.cache.                               *)
NamingAsWritten ==
    (/\ kq.stage # "decorated" /\ kq.funcname = Double /\ kq.version = NoVersion
     /\ kq.args = <<PyInt(21)>> /\ kq.kwdsA = <<>>)
        => HasSuffix(kq.fnA, Double \o <<".","_","2","1",".","c","a","c","h","e">>)

(* C10 as amended: the path is cache_dir/module.function_ followed by the  *)
(* sanitized ver<tag>_ when there is a tag, then the sanitized positional  *)
(* arguments, an underscore, the sanitized name.value pairs, and .pickle;  *)
(* double(21) writes cache_dir/module.double_21_.pickle.                   *)
CacheFileNaming ==
    kq.stage # "decorated" =>
        LET stem == cache_dir \o <<"/">> \o FuncModule \o <<".">> \o kq.funcname \o <<"_">>
            rest == SubSeq(kq.fnA, Len(stem) + 1, Len(kq.fnA))
        IN /\ HasPrefix(kq.fnA, stem)
           /\ HasSuffix(kq.fnA, <<".","p","i","c","k","l","e">>)
           /\ \A i \in 1..Len(rest) : rest[i] \in valid_chars \ {" "}
           /\ kq.version # NoVersion => HasPrefix(rest, <<"v","e","r","1","_">>)
           /\ (kq.version = PyStr(<<"1","!">>) /\ kq.args = <<PyStr(<<"a"," ","b">>)>>
               /\ kq.kwdsA = <<[k |-> <<"b">>, v |-> PyInt(2)]>>)
                => rest = <<"v","e","r","1","_","a","_","b","_","b",".","2",
                            ".","p","i","c","k","l","e">>
           /\ (kq.funcname = Double /\ kq.version = NoVersion
               /\ kq.args = <<PyInt(21)>> /\ kq.kwdsA = <<>>)
                => kq.fnA = <<"/","t","m","p","/","c","/","m",".","d","o","u","b","l","e",
                              "_","2","1","_",".","p","i","c","k","l","e">>

\* the path of double(21) is derived
CacheFileNamingWitness ==
    /\ kq.stage # "decorated" /\ kq.funcname = Double /\ kq.version = NoVersion
    /\ kq.args = <<PyInt(21)>> /\ kq.kwdsA = <<>>
    /\ HasSuffix(kq.fnA, <<"d","o","u","b","l","e","_","2","1","_",".","p","i","c","k","l","e">>)

-----------------------------------------------------------------------------
(* The directory policy on its own (lines 48-57 and 116-118): the cache    *)
(* directory, what cachable captures from it, and the group and the mode   *)
(* of a file the wrapper writes (specification SpecDir).                   *)

\* the constants of the module stat
S_IXUSR == 64
S_IXGRP == 8
S_IXOTH == 1
S_ISGID == 1024
S_IFDIR == 16384

\* the permission bits other than the execute bits, with set-id and sticky
KeptBits == {2048, 1024, 512, 256, 128, 32, 16, 4, 2}

HasBit(m, b) == (m \div b) % 2 = 1

ClearBit(m, b) == IF HasBit(m, b) THEN m - b ELSE m

\* stat.S_IMODE(st_mode): the low twelve bits
S_IMODE(m) == m % 4096

\* m & ~(stat.S_IXUSR | stat.S_IXGRP | stat.S_IXOTH)
WithoutExec(m) == ClearBit(ClearBit(ClearBit(m, S_IXUSR), S_IXGRP), S_IXOTH)

\* the effective group of the process, and what its umask 022 leaves
ProcessGid == 1000
NewFileMode == 420
NewDirMode == 493

\* the groups and the permission bits (0755, 02775, 0111, 0700, 0) of a directory
DirGids == {0, 100}
DirModes == {493, 1533, 73, 448, 0}

NoFile == [written |-> FALSE]

\* the truth value of gid and of mode in the tests of lines 117 and 118
Truthy(x) == x.t = "int" /\ x.n # 0

\* lines 48-57: gid and mode of the closure
CapturedGid(exists, st_gid) == IF exists THEN PyInt(st_gid) ELSE PyNone

CapturedMode(exists, st_mode) ==
    IF exists THEN PyInt(WithoutExec(S_IMODE(st_mode))) ELSE PyNone

(* open(fn, 'wb') creates the file with the group of the process, or with  *)
(* the group of the directory when the directory has the set-group-id bit, *)
(* and with the mode the umask leaves.                                     *)
CreatedFile(st_gid, st_mode) ==
    [written |-> TRUE,
     gid |-> IF HasBit(st_mode, S_ISGID) THEN st_gid ELSE ProcessGid,
     mode |-> NewFileMode]

\* lines 116-118: the file after os.fchown and os.fchmod
WrittenFile(gid, mode, st_gid, st_mode) ==
    LET f == CreatedFile(st_gid, st_mode)
    IN [written |-> TRUE,
        gid |-> IF Truthy(gid) THEN gid.n ELSE f.gid,
        mode |-> IF Truthy(mode) THEN mode.n ELSE f.mode]

InitDir ==
    /\ InitWrapperVars
    /\ kq = NoKey /\ tm = NoScopes /\ rc = NoRace
    /\ \E g \in DirGids, m \in DirModes :
        /\ ~dirExists => (g = 100 /\ m = 0)
        /\ dp = [stage |-> "start", st_gid |-> g, st_mode |-> S_IFDIR + m,
                 existed |-> FALSE, gid0 |-> 0, mode0 |-> 0,
                 gid |-> PyNone, mode |-> PyNone, file |-> NoFile]

\* cachable(...): lines 48-57
ResolveDir ==
    /\ dp.stage = "start"
    /\ dirExists' = TRUE
    /\ dp' = [dp EXCEPT
                !.stage = "resolved",
                !.existed = dirExists,
                !.st_gid = IF dirExists THEN dp.st_gid ELSE ProcessGid,
                !.st_mode = IF dirExists THEN dp.st_mode ELSE S_IFDIR + NewDirMode,
                !.gid0 = IF dirExists THEN dp.st_gid ELSE ProcessGid,
                !.mode0 = IF dirExists THEN dp.st_mode ELSE S_IFDIR + NewDirMode,
                !.gid = CapturedGid(dirExists, dp.st_gid),
                !.mode = CapturedMode(dirExists, dp.st_mode)]
    /\ UNCHANGED <<cfg, files, cache, level, opened, ncalls, last, kq, tm, rc>>

\* somebody changes the group or the mode of the directory afterwards
ChangeDir ==
    /\ dp.stage = "resolved"
    /\ \E g \in DirGids, m \in DirModes :
        /\ g # dp.st_gid \/ S_IFDIR + m # dp.st_mode
        /\ dp' = [dp EXCEPT !.st_gid = g, !.st_mode = S_IFDIR + m]
    /\ UNCHANGED <<wrapperVars, kq, tm, rc>>

\* a call of the wrapper writes a cache file: lines 116-118
WriteFile ==
    /\ dp.stage \in {"resolved", "written"}
    /\ dp' = [dp EXCEPT !.stage = "written",
                        !.file = WrittenFile(dp.gid, dp.mode, dp.st_gid, dp.st_mode)]
    /\ UNCHANGED <<wrapperVars, kq, tm, rc>>

NextDir == ResolveDir \/ ChangeDir \/ WriteFile

SpecDir == InitDir /\ [][NextDir]_vars

(* C11: when the directory existed at decoration, every file the wrapper   *)
(* writes has the group the directory had then and exactly the permission  *)
(* bits it had then without the three execute bits, for every group and    *)
(* every mode; when the directory was created by the decoration, the file  *)
(* keeps the group and the mode it was created with.                       *)
DirectoryPolicyPropagates ==
    dp.stage = "written" =>
        IF dp.existed
        THEN /\ dp.file.gid = dp.gid0
             /\ \A b \in KeptBits : HasBit(dp.file.mode, b) = HasBit(dp.mode0, b)
             /\ \A b \in {S_IXUSR, S_IXGRP, S_IXOTH} : ~HasBit(dp.file.mode, b)
             /\ dp.file.mode < 4096
        ELSE dp.file = CreatedFile(dp.st_gid, dp.st_mode)

-----------------------------------------------------------------------------
(* Further properties of the wrapper (specification Spec) *)

(* C12: with keepweakref and without recompute, a call whose path has a    *)
(* live weak reference returns that object: it does not read the file,     *)
(* does not invoke the function, writes nothing and leaves the file as it  *)
(* is, also when the file was deleted or corrupted.                        *)
WeakLayerFirst ==
    (last.op = "call" /\ ~last.recompute /\ cfg.keepweakref /\ last.preWeak)
        => /\ last.weakHit
           /\ ~last.diskRead /\ ~last.diskHit /\ ~last.readWarned
           /\ ~last.invoked
           /\ last.write = "none"
           /\ last.outcome = "return"
           /\ last.fn \in DOMAIN cache /\ last.ret = cache[last.fn]
           /\ last.ret = Expected.val
           /\ Content(files, last.fn) = last.preFile

\* a weak-reference hit over a corrupted file
WeakLayerFirstWitness ==
    /\ last.op = "call" /\ ~last.recompute /\ cfg.keepweakref
    /\ last.preWeak /\ last.preFile = Corrupt
    /\ last.weakHit /\ last.outcome = "return" /\ last.ret = Expected.val

(* C13: with keepweakref, every call that ends in a disk hit or in a       *)
(* computation whose result the function returned stores that result       *)
(* under its path in the weak-reference dictionary and returns it, for     *)
(* every result value.  (Calls ended by the warning of a failed write are  *)
(* left out: they are C5's case.)                                          *)
WeakLayerStores ==
    (/\ last.op = "call" /\ cfg.keepweakref
     /\ last.diskHit \/ (last.invoked /\ ~last.funcRaised)
     /\ last.exc # "write")
        => /\ last.outcome = "return"
           /\ last.fn \in DOMAIN cache
           /\ cache[last.fn] = last.ret

(* C14: a cache file that unpickles to None is a miss: the call that read  *)
(* it invokes the function and, when the function returns, writes the file *)
(* again, as a call that found no file does; and every call that returns   *)
(* None has invoked the function: it was served by neither the weak        *)
(* references nor the file.                                                *)
NoneIsAMiss ==
    /\ (/\ last.op = "call" /\ last.diskRead
        /\ last.preFile.k = "pickle" /\ last.preFile.val = PyNone)
            => /\ ~last.diskHit /\ ~last.readWarned /\ last.exc # "read"
               /\ last.invoked
               /\ ~last.funcRaised => last.write # "none"
               /\ last.write = "ok" =>
                    Content(files, last.fn) = Pickled(Expected.val, cfg.version)
    /\ (last.op = "call" /\ last.outcome = "return" /\ last.ret = PyNone)
            => /\ last.invoked
               /\ ~last.weakHit /\ ~last.diskHit
               /\ last.fn \notin DOMAIN cache

\* the function that returns None is invoked again over the file it wrote
NoneIsAMissWitness ==
    /\ last.op = "call" /\ ~last.recompute /\ last.diskRead
    /\ last.preFile = Pickled(PyNone, cfg.version)
    /\ last.rep.same /\ last.rep.invoked /\ last.rep.write = "ok"
    /\ last.invoked /\ last.outcome = "return" /\ last.ret = PyNone

\* whether the text p occurs in the text s
Contains(s, p) ==
    \E i \in 1..(Len(s) - Len(p) + 1) : SubSeq(s, i, i + Len(p) - 1) = p

(* C16: the keyword recompute is taken out of the keywords before the path *)
(* is derived and before the function is called: the path of a call is    *)
(* the path of the same call without recompute and the text recompute does *)
(* not occur in it, and the keywords the function is invoked with are the  *)
(* keywords of the call without recompute.                                 *)
RecomputeIsRemoved ==
    last.op = "call" =>
        LET plain == SelectSeq(last.kwds, LAMBDA p : p.k # RecomputeKey)
        IN /\ last.fn = FileName(FuncName, cfg.version, cfg.ignore, last.args, plain)
           /\ ~Contains(last.fn, RecomputeKey)
           /\ \A i \in 1..Len(last.passed) : last.passed[i].k # RecomputeKey
           /\ last.invoked => last.passed = plain

\* a call with recompute=True that targets the file an earlier call wrote
RecomputeIsRemovedWitness ==
    /\ last.op = "call" /\ last.recompute
    /\ \E i \in 1..Len(last.kwds) : last.kwds[i].k = RecomputeKey
    /\ last.preFile.k = "pickle" /\ last.preFile.val = Expected.val
    /\ last.invoked /\ last.passed = <<>>
    /\ last.fn = FileName(FuncName, cfg.version, cfg.ignore, last.args, <<>>)

(* C19: a call in which the function raises leaves every cache file and    *)
(* every weak reference as they were before the call, also when it is a    *)
(* call with recompute=True over an existing file and a live weak          *)
(* reference.                                                              *)
FunctionFailureLeavesCache ==
    [][(last'.op = "call" /\ last'.funcRaised)
            => (files' = files /\ cache' = cache)]_vars

\* the function raised in a recompute over a readable file and a live object
FunctionFailureLeavesCacheWitness ==
    /\ last.op = "call" /\ last.recompute /\ last.funcRaised
    /\ last.preFile.k = "pickle" /\ last.preWeak
    /\ Content(files, last.fn) = last.preFile
    /\ last.fn \in DOMAIN cache
    /\ last.outcome = "raise"

(* C20 as written: a call whose write fails leaves the file of its key as  *)
(* it was before the call.                                                 *)
WriteFailureLeavesEntry ==
    (last.op = "call" /\ last.write \notin {"none", "ok"})
        => Content(files, last.fn) = last.preFile

(* C20 as amended: a call whose write fails leaves the file of its key as  *)
(* it was only when open(fn, 'wb') itself failed; when os.fchown,          *)
(* os.fchmod or cPickle.dump failed, the file was created or truncated     *)
(* already: what the key had before is lost and an empty or partial file   *)
(* that cannot be loaded is left in its place.                             *)
WriteFailureAfterOpen ==
    /\ (last.op = "call" /\ last.write = "openFail")
            => Content(files, last.fn) = last.preFile
    /\ (last.op = "call" /\ last.write \in {"chownFail", "dumpFail"})
            => Content(files, last.fn) = Corrupt

\* a recompute whose dump failed over a readable file
WriteFailureAfterOpenWitness ==
    /\ last.op = "call" /\ last.recompute /\ last.write = "dumpFail"
    /\ last.preFile.k = "pickle"
    /\ Content(files, last.fn) = Corrupt

-----------------------------------------------------------------------------
(* Processes that call the wrapper with the same arguments against one     *)
(* cache directory (specification SpecRace).  Each process runs lines      *)
(* 96-126 of a wrapper without weak references and without recompute, one  *)
(* system call at a time; nothing locks the file.  cPickle.dump writes the *)
(* pickle in two parts; the file is complete when both parts are there.    *)
(* At the start there is no file, a complete file, or the partial file a   *)
(* writer that was killed left behind.                                     *)

\* the processes
MaxProcs == 2

Procs == 1..MaxProcs

\* the call every process makes, and what func returns for it
RaceArgs == <<PyInt(21)>>

RaceResult == Func(RaceArgs, <<>>).val

NoSuchFile == [exists |-> FALSE]

\* a file with its two parts: whether each holds the bytes of the pickle
FileParts(first, rest) == [exists |-> TRUE, first |-> first, rest |-> rest]

\* whether cPickle.load reads a whole pickle from the file
Loadable(f) == f.exists /\ f.first /\ f.rest

InitRace ==
    /\ InitWrapperVars
    /\ dirExists
    /\ kq = NoKey /\ dp = NoDir /\ tm = NoScopes
    /\ \E f \in {NoSuchFile, FileParts(TRUE, TRUE), FileParts(TRUE, FALSE)} :
        rc = [stage |-> "run", file |-> f,
              pc |-> [p \in Procs |-> "exists"],
              ret |-> [p \in Procs |-> PyNone],
              warned |-> [p \in Procs |-> FALSE]]

\* line 96: os.path.exists(fn)
TestExists(p) ==
    /\ rc.stage = "run" /\ rc.pc[p] = "exists"
    /\ rc' = [rc EXCEPT !.pc[p] = IF rc.file.exists THEN "load" ELSE "call"]
    /\ UNCHANGED <<wrapperVars, kq, dp, tm>>

(* Lines 97-106: open(fn, 'rb') and cPickle.load(f).  A file that is not   *)
(* complete makes the load raise an exception of either shape; the handler *)
(* warns, or raises IndexError when the exception carries no argument.     *)
LoadFile(p) ==
    /\ rc.stage = "run" /\ rc.pc[p] = "load"
    /\ IF Loadable(rc.file)
       THEN rc' = [rc EXCEPT !.ret[p] = RaceResult, !.pc[p] = "returned"]
       ELSE \E shape \in Shapes :
                rc' = IF WarnRaises(shape)
                      THEN [rc EXCEPT !.pc[p] = "raised"]
                      ELSE [rc EXCEPT !.warned[p] = TRUE, !.pc[p] = "call"]
    /\ UNCHANGED <<wrapperVars, kq, dp, tm>>

\* lines 108-114: ret is None, func is called
CallFunc(p) ==
    /\ rc.stage = "run" /\ rc.pc[p] = "call"
    /\ rc' = [rc EXCEPT !.ret[p] = RaceResult, !.pc[p] = "open"]
    /\ UNCHANGED <<wrapperVars, kq, dp, tm>>

\* line 116: open(fn, 'wb') creates the file or truncates it
OpenForWrite(p) ==
    /\ rc.stage = "run" /\ rc.pc[p] = "open"
    /\ rc' = [rc EXCEPT !.file = FileParts(FALSE, FALSE), !.pc[p] = "dump"]
    /\ UNCHANGED <<wrapperVars, kq, dp, tm>>

\* line 119: the first part of the pickle reaches the file
DumpFirst(p) ==
    /\ rc.stage = "run" /\ rc.pc[p] = "dump"
    /\ rc' = [rc EXCEPT !.file = FileParts(TRUE, rc.file.rest), !.pc[p] = "dumpRest"]
    /\ UNCHANGED <<wrapperVars, kq, dp, tm>>

\* line 119: the rest of the pickle reaches the file, which is closed; line 126
DumpRest(p) ==
    /\ rc.stage = "run" /\ rc.pc[p] = "dumpRest"
    /\ rc' = [rc EXCEPT !.file = FileParts(rc.file.first, TRUE), !.pc[p] = "returned"]
    /\ UNCHANGED <<wrapperVars, kq, dp, tm>>

NextRace ==
    \E p \in Procs :
        \/ TestExists(p)
        \/ LoadFile(p)
        \/ CallFunc(p)
        \/ OpenForWrite(p)
        \/ DumpFirst(p)
        \/ DumpRest(p)

SpecRace == InitRace /\ [][NextRace]_vars

(* C15: in every interleaving of the processes no call raises, and every   *)
(* call that has returned has returned f(args); a process that read a      *)
(* partly written file warned and computed.                                *)
RaceIsAbsorbed ==
    rc.stage = "run" =>
        \A p \in Procs :
            /\ rc.pc[p] # "raised"
            /\ rc.pc[p] = "returned" => rc.ret[p] = RaceResult
            /\ rc.warned[p] => rc.pc[p] \in {"call", "open", "dump", "dumpRest", "returned"}

-----------------------------------------------------------------------------
(* The timer scopes on their own (specification SpecTimer).  A wrapper     *)
(* opens a scope around the load of a file (lines 99-104) and a scope      *)
(* around the computation (lines 109-121); a function that is computed can *)
(* call other wrapped functions, whose scopes open inside its scope.  A    *)
(* scope is left normally or by an exception.  Each scope belongs to a     *)
(* wrapper with its own verbose.                                           *)

\* scopes open at the same time
MaxDepth == 3

Timer == [level |-> level, opened |-> opened]

\* the innermost open scope
Top == tm[Len(tm)]

InitTimer ==
    /\ InitWrapperVars
    /\ dirExists
    /\ kq = NoKey /\ dp = NoDir /\ rc = NoRace
    /\ tm = NoScopes

\* with optional(verbose, timer(...)): __enter__ (lines 99-103, 109-113)
EnterScope ==
    /\ Len(tm) < MaxDepth
    /\ tm # <<>> => Top.kind = "compute"
    /\ \E verbose \in BOOLEAN, kind \in {"load", "compute"} :
        \E t \in {OptionalEnter(verbose, Timer)} :
            /\ level' = t.level
            /\ opened' = t.opened
            /\ tm' = Append(tm, [verbose |-> verbose, kind |-> kind,
                                 level0 |-> level, opened0 |-> opened])
            /\ last' = [op |-> "enter", verbose |-> verbose,
                        levelBefore |-> level, openedBefore |-> opened]
    /\ UNCHANGED <<dirExists, cfg, files, cache, ncalls, kq, dp, rc>>

(* The end of the with block: __exit__, normally or with the exception     *)
(* that leaves the block (cPickle.load, func or the warning raised).       *)
ExitScope ==
    /\ tm # <<>>
    /\ \E failed \in BOOLEAN :
        \E x \in {OptionalExit(Top.verbose, Timer, failed)} :
            /\ level' = x.t.level
            /\ opened' = x.t.opened
            /\ tm' = SubSeq(tm, 1, Len(tm) - 1)
            /\ last' = [op |-> "exit", verbose |-> Top.verbose, failed |-> failed,
                        suppressed |-> x.suppress,
                        level0 |-> Top.level0,
                        levelBefore |-> level, openedBefore |-> opened]
    /\ UNCHANGED <<dirExists, cfg, files, cache, ncalls, kq, dp, rc>>

NextTimer == EnterScope \/ ExitScope

SpecTimer == InitTimer /\ [][NextTimer]_vars

(* C17: timer.level is never negative and counts the open scopes of        *)
(* verbose wrappers; when a scope is left, normally or by an exception,    *)
(* the level is what it was before the scope was entered; entering or      *)
(* leaving the scope of a wrapper that is not verbose changes neither the  *)
(* level nor the line-open flag, while a verbose wrapper's scope raises    *)
(* the level by one on entry.                                              *)
TimerBalanced ==
    /\ level >= 0
    /\ level = Cardinality({i \in 1..Len(tm) : tm[i].verbose})
    /\ last.op = "exit" => level = last.level0
    /\ (last.op \in {"enter", "exit"} /\ ~last.verbose)
            => level = last.levelBefore /\ opened = last.openedBefore
    /\ (last.op = "enter" /\ last.verbose)
            => level = last.levelBefore + 1 /\ opened

\* a nested verbose scope was left by an exception, inside a verbose scope
TimerBalancedWitness ==
    /\ last.op = "exit" /\ last.failed /\ last.verbose
    /\ Len(tm) >= 1 /\ Top.verbose
    /\ level = last.level0 /\ level >= 1

-----------------------------------------------------------------------------
(* Two calls in one cache directory (specification SpecPair): after the    *)
(* first call, either the same wrapper is called with other keywords       *)
(* (DeriveSecond), or a wrapper of any function and version tag is called  *)
(* with any positional arguments and the same keywords (DeriveOther).      *)

DeriveOther ==
    /\ kq.stage = "first"
    /\ \E f \in FuncNames, ver \in Versions, a \in ArgTuples :
        kq' = [stage |-> "other", funcname |-> kq.funcname, version |-> kq.version,
               ignore |-> kq.ignore, args |-> kq.args, kwdsA |-> kq.kwdsA,
               kwdsB |-> kq.kwdsA, fnA |-> kq.fnA,
               funcnameB |-> f, versionB |-> ver, argsB |-> a,
               fnB |-> FileName(f, ver, kq.ignore, a, kq.kwdsA)]
    /\ UNCHANGED <<wrapperVars, dp, tm, rc>>

NextPair == DeriveFirst \/ DeriveSecond \/ DeriveOther

SpecPair == InitKey /\ [][NextPair]_vars

\* the positional arguments as the texts str() gives
Rendered(args) == [i \in 1..Len(args) |-> str(args[i])]

(* C18: two calls that differ in the function, in the version tag, in      *)
(* the rendered positional arguments or in the keyword pairs that are not  *)
(* ignored derive different paths.                                         *)
KeyInjectivity ==
    /\ (kq.stage = "second" /\ NotIgnored(kq.kwdsA) # NotIgnored(kq.kwdsB))
            => kq.fnA # kq.fnB
    /\ (/\ kq.stage = "other"
        /\ \/ kq.funcname # kq.funcnameB
           \/ kq.version # kq.versionB
           \/ Rendered(kq.args) # Rendered(kq.argsB))
            => kq.fnA # kq.fnB

=============================================================================
